---- MODULE Spec2Model ----
(***************************************************************************)
(* cli-chat server (src/src/server.py): the in-memory Broker, the          *)
(* message-post handler and the websocket listen handler, run as           *)
(* coroutines of one asyncio event loop.                                   *)
(*                                                                         *)
(* The event loop is cooperative: exactly one task runs at a time and it   *)
(* keeps the loop until it suspends on an unresolved future.  `running` is *)
(* the task that holds the loop (0 when the loop is between handles),      *)
(* `ready` is the loop's FIFO of handles scheduled with call_soon.         *)
(* A handle is either the (re)start of a request task or one               *)
(* `Queue.put(message)` child task created by asyncio.gather in            *)
(* Broker.publish.                                                         *)
(*                                                                         *)
(* Every request of the model carries the credentials of a users row and   *)
(* the id of a chats row, so get_current_user and get_current_chat return  *)
(* that row (their 401 and 404 exits end a request before it touches the   *)
(* broker or the messages table); a request task starts at the first       *)
(* dependency after them.                                                  *)
(*                                                                         *)
(* The text and timestamp of a message are carried through unread by every *)
(* function below; a message is identified by its row id in `messages`.    *)
(***************************************************************************)
EXTENDS Integers, Sequences, FiniteSets, TLC

\* Bound of the model: number of requests (listen connections and message
\* posts together) the server receives in one run.
MaxTasks == 3

\* Rows of the chats table and of the users table.
Chats == {1, 2}
Users == {1, 2}

VARIABLES
    members,      \* Chat.members: chat id -> set of user ids
    messages,     \* messages table: row id -> [chat_id, user_id]
    subscribers,  \* Broker.subscribers: defaultdict chat id -> {token -> queue}
    queues,       \* heap of asyncio.Queue objects: queue id -> items
    tasks,        \* request tasks: task id -> record
    ready,        \* event loop's FIFO of scheduled handles
    running,      \* task holding the event loop, 0 if none
    ntodo,        \* handles of `ready` left to run in this loop iteration
    qinfo,        \* history: per queue, its room, token and (un)subscribe times
    enqLog,       \* history: per queue, every item ever put, in put order
    pubLog,       \* history: message ids in the order publish was invoked
    call          \* history: the last direct call of a Broker method

vars == <<members, messages, subscribers, queues, tasks, ready, running,
          ntodo, qinfo, enqLog, pubLog, call>>

EmptyMap == [x \in {} |-> 0]

Range(s) == {s[i] : i \in 1..Len(s)}

\* ---------------------------------------------------------------- handles
TaskH(t) == [type |-> "task", id |-> t, q |-> 0, msg |-> 0]
PutH(owner, q, m) == [type |-> "put", id |-> owner, q |-> q, msg |-> m]

\* ----------------------------------------------------------------- Broker
\* defaultdict(dict).__getitem__: a missing key is inserted with dict().
Touch(subs, c) ==
    IF c \in DOMAIN subs THEN subs ELSE [k \in DOMAIN subs \cup {c} |->
        IF k = c THEN EmptyMap ELSE subs[k]]

\* Broker.subscribe: self.subscribers[chat_id][token] = Queue()
BrokerSubscribe(subs, c, tok, q) ==
    LET s == Touch(subs, c) IN
    [s EXCEPT ![c] = [k \in DOMAIN s[c] \cup {tok} |->
                        IF k = tok THEN q ELSE s[c][k]]]

\* Faulty variant: unsubscribe leaves the token in the mapping.
BrokerUnsubscribe_Keep(subs, c, tok) == Touch(subs, c)

\* Faulty variant: unsubscribe deletes the entry of a room whose mapping
\* became empty.
BrokerUnsubscribe_DropEmpty(subs, c, tok) ==
    LET s == Touch(subs, c)
        left == DOMAIN s[c] \ {tok}
    IN IF left = {} THEN [k \in DOMAIN s \ {c} |-> s[k]]
       ELSE [s EXCEPT ![c] = [k \in left |-> s[c][k]]]

\* Faulty variant: unsubscribe empties the room's mapping.
BrokerUnsubscribe_Clear(subs, c, tok) ==
    [Touch(subs, c) EXCEPT ![c] = EmptyMap]

\* Broker.unsubscribe: self.subscribers[chat_id].pop(token)
BrokerUnsubscribe(subs, c, tok) ==
    LET s == Touch(subs, c) IN
    [s EXCEPT ![c] = [k \in DOMAIN s[c] \ {tok} |-> s[c][k]]]

\* dict.pop(token) without a default raises KeyError for a missing key
\* (after the defaultdict lookup of the room) and removes nothing.
PopRaises(subs, c, tok) == tok \notin DOMAIN Touch(subs, c)[c]

\* Ascending sequence of a finite set of integers.
RECURSIVE SortedSeq(_)
SortedSeq(S) ==
    IF S = {} THEN <<>>
    ELSE LET lo == CHOOSE x \in S : \A y \in S : x <= y
         IN <<lo>> \o SortedSeq(S \ {lo})

\* Faulty variant: the fan-out stops after the first subscriber.
Snapshot_FirstOnly(subs, c) ==
    LET m == Touch(subs, c)[c]
        toks == SortedSeq(DOMAIN m)
    IN [i \in 1..(IF Len(toks) > 0 THEN 1 ELSE 0) |-> m[toks[i]]]

\* Faulty variant: the fan-out takes the queues of every room.
Snapshot_AllRooms(subs, c) ==
    LET all == UNION {{subs[r][k] : k \in DOMAIN subs[r]} : r \in DOMAIN subs}
        qs == SortedSeq(all)
    IN [i \in 1..Len(qs) |-> qs[i]]

\* Broker.publish, line 41: the queues of self.subscribers[chat_id].values()
\* in dict (insertion) order; tokens are inserted in the order they are minted.
Snapshot(subs, c) ==
    LET m == Touch(subs, c)[c]
        toks == SortedSeq(DOMAIN m)
    IN [i \in 1..Len(toks) |-> m[toks[i]]]

\* ------------------------------------------------------------------ tasks
NewTask(kind, u, c) ==
    [kind |-> kind, user |-> u, chat_id |-> c,
     pc |-> IF kind = "listen" THEN "stream" ELSE "filter",
     token |-> 0, stream |-> 0, peer |-> TRUE, cur |-> 0, sent |-> <<>>,
     status |-> "", exc |-> "", msg |-> 0, pending |-> 0, nsubs |-> 0,
     waitfut |-> FALSE, cancelled |-> FALSE, unsubs |-> 0, buffered |-> -1]

\* Task ids: the k-th listen connection is task k, the k-th post request
\* is task -k; 0 is no task.
TaskIds == DOMAIN tasks
Listens == {t \in TaskIds : tasks[t].kind = "listen"}
Posts == {t \in TaskIds : tasks[t].kind = "post"}
Spawn(t, r) == [k \in TaskIds \cup {t} |-> IF k = t THEN r ELSE tasks[k]]

\* Memberships in the database when the server starts: user 1 created both
\* chats, user 2 joined chat 1 only.
InitMembers == [c \in Chats |-> IF c = 1 THEN {1, 2} ELSE {1}]

\* No Broker method has been called directly.
NoCall == [op |-> "", chat_id |-> 0, token |-> 0, raised |-> FALSE,
           before |-> EmptyMap, qbefore |-> <<>>]

Init ==
    /\ members = InitMembers
    /\ messages = <<>>
    /\ subscribers = EmptyMap
    /\ queues = <<>>
    /\ tasks = EmptyMap
    /\ ready = <<>>
    /\ running = 0
    /\ ntodo = 0
    /\ qinfo = <<>>
    /\ enqLog = <<>>
    /\ pubLog = <<>>
    /\ call = NoCall


\* The requests the model submits, as (caller, chat id): a member of either
\* chat and a non-member.
Requests == {<<1, 1>>, <<1, 2>>, <<2, 2>>}

SetTask(t, r) == [tasks EXCEPT ![t] = r]

\* ------------------------------------------------- transport / HTTP input
\* The loop is between two iterations, where it polls the selector: only
\* there do transport events reach it.
Polling == running = 0 /\ ntodo = 0

\* A client opens the websocket /v1/chats/{chat_id}/listen: the server
\* creates the task that runs ws_listen_to_chat and schedules its first step.
Connect(u, c) ==
    /\ Polling
    /\ Cardinality(TaskIds) < MaxTasks
    /\ tasks' = Spawn(Cardinality(Listens) + 1, NewTask("listen", u, c))
    /\ ready' = Append(ready, TaskH(Cardinality(Listens) + 1))
    /\ UNCHANGED <<ntodo, members, messages, subscribers, queues, running,
                   qinfo, enqLog, pubLog, call>>

\* A client sends POST /v1/chats/{chat_id}/message.
PostRequest(u, c) ==
    /\ Polling
    /\ Cardinality(TaskIds) < MaxTasks
    /\ tasks' = Spawn(-(Cardinality(Posts) + 1), NewTask("post", u, c))
    /\ ready' = Append(ready, TaskH(-(Cardinality(Posts) + 1)))
    /\ UNCHANGED <<ntodo, members, messages, subscribers, queues, running,
                   qinfo, enqLog, pubLog, call>>

\* The peer of a listen connection goes away.  ws_listen_to_chat never
\* awaits ws.receive(), so nothing is scheduled: the session learns of it
\* from its next transport call.  A session about to make such a call is
\* covered by the call's own failure branch (WsAccepted, WsSendText); the
\* disconnect is kept as state for a session parked in `await stream.get()`,
\* which makes no transport call until a message arrives.
Disconnect(t) ==
    /\ Polling
    /\ t \in Listens
    /\ tasks[t].pc = "waiting"
    /\ tasks[t].waitfut
    /\ tasks[t].peer
    /\ tasks' = SetTask(t, [tasks[t] EXCEPT !.peer = FALSE])
    /\ UNCHANGED <<ntodo, members, messages, subscribers, queues, ready,
                   running, qinfo, enqLog, pubLog, call>>

\* Task.cancel() on a suspended listen task (server shutdown): the future
\* the task awaits is cancelled, which schedules the task; CancelledError
\* is thrown into the coroutine at its next step.
Cancel(t) ==
    /\ Polling
    /\ t \in Listens
    /\ tasks[t].waitfut
    /\ tasks' = SetTask(t, [tasks[t] EXCEPT !.cancelled = TRUE,
                                            !.waitfut = FALSE])
    /\ ready' = Append(ready, TaskH(t))
    /\ UNCHANGED <<ntodo, members, messages, subscribers, queues, running,
                   qinfo, enqLog, pubLog, call>>

\* The transport resolves the future a session awaits in ws.accept() or
\* ws.send_text().
IoDone(t) ==
    /\ Polling
    /\ t \in Listens
    /\ tasks[t].pc \in {"accepting", "sending"}
    /\ tasks[t].waitfut
    /\ tasks' = SetTask(t, [tasks[t] EXCEPT !.waitfut = FALSE])
    /\ ready' = Append(ready, TaskH(t))
    /\ UNCHANGED <<ntodo, members, messages, subscribers, queues, running,
                   qinfo, enqLog, pubLog, call>>

\* ------------------------------------------------------------- event loop
\* Where a suspended coroutine continues when its task is stepped.
Resume(pc) ==
    CASE pc = "accepting" -> "accepted"
      [] pc = "waiting" -> "get"
      [] pc = "sending" -> "get"
      [] pc = "gather" -> "return"
      [] OTHER -> pc

\* One iteration of the loop runs the handles that were scheduled when it
\* began; what they schedule waits for the next iteration.
Popped == IF ntodo = 0 THEN Len(ready) - 1 ELSE ntodo - 1

\* The loop pops a task handle and steps the task.  A cancelled task gets
\* CancelledError, which unwinds ws_listen_to_chat through the finally of
\* get_chat_stream.
RunTask ==
    /\ running = 0
    /\ ready # <<>>
    /\ Head(ready).type = "task"
    /\ LET t == Head(ready).id
           r == tasks[t]
       IN /\ ready' = Tail(ready)
          /\ ntodo' = Popped
          /\ running' = t
          /\ tasks' = SetTask(t,
                IF r.cancelled
                THEN [r EXCEPT !.pc = "cleanup", !.cancelled = FALSE,
                               !.exc = "CancelledError"]
                ELSE [r EXCEPT !.pc = Resume(r.pc)])
    /\ UNCHANGED <<members, messages, subscribers, queues, qinfo, enqLog,
                   pubLog, call>>

\* The session suspended in `await stream.get()` on queue q, if any:
\* the getter future Queue.put_nowait wakes.
Getters(q) ==
    {g \in Listens : tasks[g].stream = q /\ tasks[g].pc = "waiting"
                     /\ tasks[g].waitfut}

\* Faulty variant: the put looks the room's subscribers up when it runs, so it also
\* reaches the queues registered since the publish call.
RunPut_Live ==
    /\ running = 0
    /\ ready # <<>>
    /\ Head(ready).type = "put"
    /\ LET h == Head(ready)
           o == h.id
           room == Touch(subscribers, tasks[o].chat_id)[tasks[o].chat_id]
           targets == {h.q} \cup {room[k] : k \in DOMAIN room}
           woken == UNION {Getters(q) : q \in targets}
           left == tasks[o].pending - 1
           t1 == [t \in TaskIds |->
                    IF t \in woken THEN [tasks[t] EXCEPT !.waitfut = FALSE]
                    ELSE IF t = o THEN [tasks[t] EXCEPT !.pending = left,
                                          !.waitfut = (left > 0)]
                    ELSE tasks[t]]
           wake == SortedSeq(woken)
       IN /\ queues' = [q \in DOMAIN queues |->
                          IF q \in targets THEN Append(queues[q], h.msg)
                                           ELSE queues[q]]
          /\ enqLog' = [q \in DOMAIN enqLog |->
                          IF q \in targets THEN Append(enqLog[q], h.msg)
                                           ELSE enqLog[q]]
          /\ tasks' = t1
          /\ ntodo' = Popped
          /\ ready' = Tail(ready)
                        \o [i \in 1..Len(wake) |-> TaskH(wake[i])]
                        \o (IF left = 0 THEN <<TaskH(o)>> ELSE <<>>)
    /\ UNCHANGED <<members, messages, subscribers, running, qinfo, pubLog,
                   call>>

\* Faulty variant: the queues hold one item; a put into a full queue
\* suspends until the subscriber takes the item, which is not awaited here.
RunPut_Bounded ==
    /\ running = 0
    /\ ready # <<>>
    /\ Head(ready).type = "put"
    /\ LET h == Head(ready)
           o == h.id
           full == queues[h.q] # <<>>
           woken == IF full THEN {} ELSE Getters(h.q)
           left == IF full THEN tasks[o].pending ELSE tasks[o].pending - 1
           t1 == [t \in TaskIds |->
                    IF t \in woken THEN [tasks[t] EXCEPT !.waitfut = FALSE]
                    ELSE IF t = o THEN [tasks[t] EXCEPT !.pending = left,
                                          !.waitfut = (left > 0)]
                    ELSE tasks[t]]
           wake == SortedSeq(woken)
       IN /\ queues' = IF full THEN queues
                       ELSE [queues EXCEPT ![h.q] = Append(@, h.msg)]
          /\ enqLog' = IF full THEN enqLog
                       ELSE [enqLog EXCEPT ![h.q] = Append(@, h.msg)]
          /\ tasks' = t1
          /\ ntodo' = Popped
          /\ ready' = Tail(ready)
                        \o [i \in 1..Len(wake) |-> TaskH(wake[i])]
                        \o (IF left = 0 THEN <<TaskH(o)>> ELSE <<>>)
    /\ UNCHANGED <<members, messages, subscribers, running, qinfo, pubLog,
                   call>>

\* Faulty variant: the loop runs the put scheduled last before the ones
\* scheduled earlier.
RunPut_Last ==
    /\ running = 0
    /\ ready # <<>>
    /\ Head(ready).type = "put"
    /\ LET last == CHOOSE i \in 1..Len(ready) :
                      /\ ready[i].type = "put"
                      /\ \A j \in (i + 1)..Len(ready) : ready[j].type # "put"
           h == ready[last]
           o == h.id
           woken == Getters(h.q)
           left == tasks[o].pending - 1
           t1 == [t \in TaskIds |->
                    IF t \in woken THEN [tasks[t] EXCEPT !.waitfut = FALSE]
                    ELSE IF t = o THEN [tasks[t] EXCEPT !.pending = left,
                                          !.waitfut = (left > 0)]
                    ELSE tasks[t]]
           wake == SortedSeq(woken)
       IN /\ queues' = [queues EXCEPT ![h.q] = Append(@, h.msg)]
          /\ enqLog' = [enqLog EXCEPT ![h.q] = Append(@, h.msg)]
          /\ tasks' = t1
          /\ ntodo' = Popped
          /\ ready' = SubSeq(ready, 1, last - 1)
                        \o SubSeq(ready, last + 1, Len(ready))
                        \o [i \in 1..Len(wake) |-> TaskH(wake[i])]
                        \o (IF left = 0 THEN <<TaskH(o)>> ELSE <<>>)
    /\ UNCHANGED <<members, messages, subscribers, running, qinfo, pubLog,
                   call>>

\* The loop pops one `sub.put(message)` child task of a gather and runs it:
\* the queue is unbounded, so put appends at once and wakes the getter;
\* the child's done callback resolves the gather once all children are done.
RunPut ==
    /\ running = 0
    /\ ready # <<>>
    /\ Head(ready).type = "put"
    /\ LET h == Head(ready)
           o == h.id
           woken == Getters(h.q)
           left == tasks[o].pending - 1
           t1 == [t \in TaskIds |->
                    IF t \in woken THEN [tasks[t] EXCEPT !.waitfut = FALSE]
                    ELSE IF t = o THEN [tasks[t] EXCEPT !.pending = left,
                                          !.waitfut = (left > 0)]
                    ELSE tasks[t]]
           wake == SortedSeq(woken)
       IN /\ queues' = [queues EXCEPT ![h.q] = Append(@, h.msg)]
          /\ enqLog' = [enqLog EXCEPT ![h.q] = Append(@, h.msg)]
          /\ tasks' = t1
          /\ ntodo' = Popped
          /\ ready' = Tail(ready)
                        \o [i \in 1..Len(wake) |-> TaskH(wake[i])]
                        \o (IF left = 0 THEN <<TaskH(o)>> ELSE <<>>)
    /\ UNCHANGED <<members, messages, subscribers, running, qinfo, pubLog,
                   call>>


\* ------------------------------------------------- dependencies (Depends)
\* When a request task ends, the server closes its connection (peer = FALSE).
\* Faulty variant: every session uses the same token and the queue that
\* was created first.
GetChatStream_SameToken(t) ==
    /\ running = t
    /\ tasks[t].pc = "stream"
    /\ LET q == Len(queues) + 1
           c == tasks[t].chat_id
       IN /\ subscribers' = BrokerSubscribe(subscribers, c, 1, 1)
          /\ queues' = Append(queues, <<>>)
          /\ enqLog' = Append(enqLog, <<>>)
          /\ qinfo' = Append(qinfo, [room |-> c, token |-> 1, owner |-> t,
                                     subAt |-> Len(pubLog), unsubAt |-> -1])
          /\ tasks' = SetTask(t, [tasks[t] EXCEPT !.pc = "filter",
                                       !.token = 1, !.stream = q])
    /\ UNCHANGED <<ntodo, members, messages, ready, running, pubLog, call>>

\* get_chat_stream up to its yield: token = uuid.uuid4();
\* broker.subscribe(chat.id, token).  A fresh token and a new Queue object.
GetChatStream(t) ==
    /\ running = t
    /\ tasks[t].pc = "stream"
    /\ LET q == Len(queues) + 1
           tok == Len(queues) + 1
           c == tasks[t].chat_id
       IN /\ subscribers' = BrokerSubscribe(subscribers, c, tok, q)
          /\ queues' = Append(queues, <<>>)
          /\ enqLog' = Append(enqLog, <<>>)
          /\ qinfo' = Append(qinfo, [room |-> c, token |-> tok, owner |-> t,
                                     subAt |-> Len(pubLog), unsubAt |-> -1])
          /\ tasks' = SetTask(t, [tasks[t] EXCEPT !.pc = "filter",
                                       !.token = tok, !.stream = q])
    /\ UNCHANGED <<ntodo, members, messages, ready, running, pubLog, call>>

\* Faulty variant: the membership test accepts everyone.
IsMember_Always(u, c) == TRUE

\* filter_chat_members: `user not in chat.members`.
IsMember(u, c) == u \in members[c]

\* filter_chat_members: 403 for a non-member.  On the listen endpoint the
\* HTTPException unwinds through get_chat_stream, which has already yielded.
FilterChatMembers(t) ==
    /\ running = t
    /\ tasks[t].pc = "filter"
    /\ IF IsMember(tasks[t].user, tasks[t].chat_id)
       THEN /\ tasks' = SetTask(t, [tasks[t] EXCEPT !.pc =
                          IF tasks[t].kind = "listen" THEN "accept"
                                                      ELSE "create"])
            /\ UNCHANGED running
       ELSE IF tasks[t].kind = "listen"
            THEN /\ tasks' = SetTask(t, [tasks[t] EXCEPT !.pc = "cleanup",
                                    !.status = "403", !.exc = "HTTPException"])
                 /\ UNCHANGED running
            ELSE /\ tasks' = SetTask(t, [tasks[t] EXCEPT !.pc = "closed",
                                    !.status = "403", !.peer = FALSE])
                 /\ running' = 0
    /\ UNCHANGED <<ntodo, members, messages, subscribers, queues, ready,
                   qinfo, enqLog, pubLog, call>>

\* Faulty variant: the unsubscribe sits after the yield without a finally, so it
\* runs only when no exception is thrown into the generator.
ExitChatStream_NoFinally(t) ==
    /\ running = t
    /\ tasks[t].pc = "cleanup"
    /\ subscribers' = IF tasks[t].exc \in {"", "WebSocketDisconnect"}
                      THEN BrokerUnsubscribe(subscribers, tasks[t].chat_id,
                                             tasks[t].token)
                      ELSE subscribers
    /\ qinfo' = [qinfo EXCEPT ![tasks[t].stream].unsubAt = Len(pubLog)]
    /\ tasks' = SetTask(t, [tasks[t] EXCEPT !.pc = "closed", !.exc = "",
                    !.unsubs = IF tasks[t].exc \in {"", "WebSocketDisconnect"}
                               THEN @ + 1 ELSE @,
                    !.peer = FALSE, !.buffered = -1])
    /\ running' = 0
    /\ UNCHANGED <<ntodo, members, messages, queues, ready, enqLog, pubLog,
                   call>>

\* get_chat_stream after its yield: finally: broker.unsubscribe(chat.id,
\* token).  Runs when the exit stack of the request closes, whether the
\* handler returned or an exception is propagating.
ExitChatStream(t) ==
    /\ running = t
    /\ tasks[t].pc = "cleanup"
    /\ subscribers' = BrokerUnsubscribe(subscribers, tasks[t].chat_id,
                                        tasks[t].token)
    /\ qinfo' = [qinfo EXCEPT ![tasks[t].stream].unsubAt = Len(pubLog)]
    /\ tasks' = SetTask(t, [tasks[t] EXCEPT !.pc = "closed", !.exc = "",
                                !.unsubs = @ + 1, !.peer = FALSE,
                                !.buffered = -1])
    /\ running' = 0
    /\ UNCHANGED <<ntodo, members, messages, queues, ready, enqLog, pubLog,
                   call>>

\* ------------------------------------------------------ ws_listen_to_chat
\* await ws.accept(): suspends until the transport finished the handshake.
WsAccept(t) ==
    /\ running = t
    /\ tasks[t].pc = "accept"
    /\ tasks' = SetTask(t, [tasks[t] EXCEPT !.pc = "accepting",
                                            !.waitfut = TRUE])
    /\ running' = 0
    /\ UNCHANGED <<ntodo, members, messages, subscribers, queues, ready,
                   qinfo, enqLog, pubLog, call>>

\* Faulty variant: the session starts from an empty queue once accepted.
WsAccepted_Flush(t) ==
    /\ running = t
    /\ tasks[t].pc = "accepted"
    /\ \/ /\ tasks' = SetTask(t, [tasks[t] EXCEPT !.pc = "get",
                           !.buffered = Len(queues[tasks[t].stream])])
          /\ queues' = [queues EXCEPT ![tasks[t].stream] = <<>>]
       \/ /\ tasks' = SetTask(t, [tasks[t] EXCEPT !.pc = "cleanup",
                                                     !.exc = "error"])
          /\ UNCHANGED queues
    /\ UNCHANGED <<ntodo, members, messages, subscribers, ready, running,
                   qinfo, enqLog, pubLog, call>>

\* ws.accept() returns, or raises when the peer has gone in the meantime.
\* `buffered` (history, kept while the session lives) is the number of
\* messages that were waiting in the session's queue when accept returned.
WsAccepted(t) ==
    /\ running = t
    /\ tasks[t].pc = "accepted"
    /\ \/ tasks' = SetTask(t, [tasks[t] EXCEPT !.pc = "get",
                        !.buffered = Len(queues[tasks[t].stream])])
       \/ tasks' = SetTask(t, [tasks[t] EXCEPT !.pc = "cleanup",
                                                  !.exc = "error"])
    /\ UNCHANGED <<ntodo, members, messages, subscribers, queues, ready,
                   running, qinfo, enqLog, pubLog, call>>

\* msg = await stream.get(): takes the head of the queue, or suspends on a
\* getter future while the queue is empty.
StreamGet(t) ==
    /\ running = t
    /\ tasks[t].pc = "get"
    /\ LET q == tasks[t].stream IN
       IF queues[q] # <<>>
       THEN /\ tasks' = SetTask(t, [tasks[t] EXCEPT !.pc = "send",
                                         !.cur = Head(queues[q])])
            /\ queues' = [queues EXCEPT ![q] = Tail(@)]
            /\ UNCHANGED running
       ELSE /\ tasks' = SetTask(t, [tasks[t] EXCEPT !.pc = "waiting",
                                                    !.waitfut = TRUE])
            /\ running' = 0
            /\ UNCHANGED queues
    /\ UNCHANGED <<ntodo, members, messages, subscribers, ready, qinfo,
                   enqLog, pubLog, call>>

\* Faulty variant: a message whose transmit fails is put back into the
\* queue.
WsSendText_Requeue(t) ==
    /\ running = t
    /\ tasks[t].pc = "send"
    /\ \/ /\ \E e \in {"WebSocketDisconnect", "error"} :
               tasks' = SetTask(t, [tasks[t] EXCEPT !.pc = "cleanup",
                                        !.exc = e, !.cur = 0])
          /\ queues' = [queues EXCEPT ![tasks[t].stream] =
                                         Append(@, tasks[t].cur)]
          /\ UNCHANGED running
       \/ /\ tasks[t].peer
          /\ tasks' = SetTask(t, [tasks[t] EXCEPT !.pc = "get",
                           !.sent = Append(@, tasks[t].cur), !.cur = 0])
          /\ UNCHANGED <<running, queues>>
       \/ /\ tasks[t].peer
          /\ tasks' = SetTask(t, [tasks[t] EXCEPT !.pc = "sending",
                           !.sent = Append(@, tasks[t].cur), !.cur = 0,
                           !.waitfut = TRUE])
          /\ running' = 0
          /\ UNCHANGED queues
    /\ UNCHANGED <<ntodo, members, messages, subscribers, ready, qinfo,
                   enqLog, pubLog, call>>

\* await ws.send_text(msg.json()): on a closed connection it raises,
\* WebSocketDisconnect (caught at line 203, the handler returns) or another
\* error (propagates); otherwise the text is handed to the transport and
\* the coroutine continues at once or suspends until the write drained.
\* The peer may have closed the connection at any moment before the call.
WsSendText(t) ==
    /\ running = t
    /\ tasks[t].pc = "send"
    /\ \/ /\ \E e \in {"WebSocketDisconnect", "error"} :
               tasks' = SetTask(t, [tasks[t] EXCEPT !.pc = "cleanup",
                                        !.exc = e, !.cur = 0])
          /\ UNCHANGED running
       \/ /\ tasks[t].peer
          /\ tasks' = SetTask(t, [tasks[t] EXCEPT !.pc = "get",
                           !.sent = Append(@, tasks[t].cur), !.cur = 0])
          /\ UNCHANGED running
       \/ /\ tasks[t].peer
          /\ tasks' = SetTask(t, [tasks[t] EXCEPT !.pc = "sending",
                           !.sent = Append(@, tasks[t].cur), !.cur = 0,
                           !.waitfut = TRUE])
          /\ running' = 0
    /\ UNCHANGED <<ntodo, members, messages, subscribers, queues, ready,
                   qinfo, enqLog, pubLog, call>>

\* --------------------------------------------------- post_message_to_chat
\* Faulty variant: the row is built and handed on but never committed.
CreateMessage_NoCommit(t) ==
    /\ running = t
    /\ tasks[t].pc = "create"
    /\ tasks' = SetTask(t, [tasks[t] EXCEPT !.pc = "publish",
                                            !.msg = Len(messages) + 1])
    /\ UNCHANGED <<ntodo, members, messages, subscribers, queues, ready,
                   running, qinfo, enqLog, pubLog, call>>

\* crud.create_message: add the row and commit.
CreateMessage(t) ==
    /\ running = t
    /\ tasks[t].pc = "create"
    /\ messages' = Append(messages, [chat_id |-> tasks[t].chat_id,
                                     user_id |-> tasks[t].user])
    /\ tasks' = SetTask(t, [tasks[t] EXCEPT !.pc = "publish",
                                            !.msg = Len(messages) + 1])
    /\ UNCHANGED <<ntodo, members, subscribers, queues, ready, running, qinfo,
                   enqLog, pubLog, call>>

\* Faulty variant: the publish always suspends on the gather, which with no child
\* task is never resolved.
Publish_WaitsOnEmpty(t) ==
    /\ running = t
    /\ tasks[t].pc = "publish"
    /\ LET c == tasks[t].chat_id
           snap == Snapshot(subscribers, c)
           n == Len(snap)
       IN /\ subscribers' = Touch(subscribers, c)
          /\ pubLog' = Append(pubLog, tasks[t].msg)
          /\ ready' = ready \o [i \in 1..n |-> PutH(t, snap[i], tasks[t].msg)]
          /\ tasks' = SetTask(t, [tasks[t] EXCEPT !.pc = "gather",
                          !.pending = n, !.nsubs = n, !.waitfut = TRUE])
          /\ running' = 0
    /\ UNCHANGED <<ntodo, members, messages, queues, qinfo, enqLog, call>>

\* Broker.publish: one put coroutine per queue of the room now, wrapped in
\* tasks by asyncio.gather and scheduled in that order.  With no subscriber
\* the gather future is already done and the await does not suspend.
Publish(t) ==
    /\ running = t
    /\ tasks[t].pc = "publish"
    /\ LET c == tasks[t].chat_id
           snap == Snapshot(subscribers, c)
           n == Len(snap)
       IN /\ subscribers' = Touch(subscribers, c)
          /\ pubLog' = Append(pubLog, tasks[t].msg)
          /\ ready' = ready \o [i \in 1..n |-> PutH(t, snap[i], tasks[t].msg)]
          /\ tasks' = SetTask(t, [tasks[t] EXCEPT
                          !.pc = IF n = 0 THEN "return" ELSE "gather",
                          !.pending = n, !.nsubs = n, !.waitfut = (n > 0)])
          /\ running' = IF n = 0 THEN t ELSE 0
    /\ UNCHANGED <<ntodo, members, messages, queues, qinfo, enqLog, call>>

\* return msg: the response is 200.
PostReturn(t) ==
    /\ running = t
    /\ tasks[t].pc = "return"
    /\ tasks' = SetTask(t, [tasks[t] EXCEPT !.pc = "closed",
                                     !.status = "200", !.peer = FALSE])
    /\ running' = 0
    /\ UNCHANGED <<ntodo, members, messages, subscribers, queues, ready,
                   qinfo, enqLog, pubLog, call>>

\* ------------------------------------------------------------------ spec
Step(t) ==
    \/ GetChatStream(t)
    \/ FilterChatMembers(t)
    \/ ExitChatStream(t)
    \/ WsAccept(t)
    \/ WsAccepted(t)
    \/ StreamGet(t)
    \/ WsSendText(t)
    \/ CreateMessage(t)
    \/ Publish(t)
    \/ PostReturn(t)

\* What the event loop does by itself: run the next handle, or the next
\* step of the coroutine that holds the loop.
Loop ==
    \/ RunTask
    \/ RunPut
    \/ \E t \in TaskIds : Step(t)

Next ==
    \/ \E r \in Requests : Connect(r[1], r[2])
    \/ \E r \in Requests : PostRequest(r[1], r[2])
    \/ \E t \in TaskIds : Disconnect(t)
    \/ \E t \in TaskIds : Cancel(t)
    \/ \E t \in TaskIds : IoDone(t)
    \/ RunTask
    \/ RunPut
    \/ \E t \in TaskIds : GetChatStream(t)
    \/ \E t \in TaskIds : FilterChatMembers(t)
    \/ \E t \in TaskIds : ExitChatStream(t)
    \/ \E t \in TaskIds : WsAccept(t)
    \/ \E t \in TaskIds : WsAccepted(t)
    \/ \E t \in TaskIds : StreamGet(t)
    \/ \E t \in TaskIds : WsSendText(t)
    \/ \E t \in TaskIds : CreateMessage(t)
    \/ \E t \in TaskIds : Publish(t)
    \/ \E t \in TaskIds : PostReturn(t)

Spec == Init /\ [][Next]_vars

\* ------------------------------------------------ Broker called directly
\* The Broker driven through its three methods by a caller that holds no
\* request: any room, any token value, in any order.  `call` keeps the
\* method, its arguments, whether it raised, and the registry and queues
\* as they were before it.  MaxTasks bounds the subscribe and publish
\* calls together, as it bounds the requests of the server.
Tokens == 1..MaxTasks

\* broker.subscribe(chat_id, token) with a token not used before.
CallSubscribe(c) ==
    /\ Len(queues) + Len(messages) < MaxTasks
    /\ LET q == Len(queues) + 1
           tok == Len(queues) + 1
       IN /\ subscribers' = BrokerSubscribe(subscribers, c, tok, q)
          /\ queues' = Append(queues, <<>>)
          /\ enqLog' = Append(enqLog, <<>>)
          /\ qinfo' = Append(qinfo, [room |-> c, token |-> tok, owner |-> 0,
                                     subAt |-> Len(pubLog), unsubAt |-> -1])
          /\ call' = [op |-> "subscribe", chat_id |-> c, token |-> tok,
                      raised |-> FALSE, before |-> subscribers,
                      qbefore |-> queues]
    /\ UNCHANGED <<members, messages, tasks, ready, running, ntodo, pubLog>>

\* broker.unsubscribe(chat_id, token) with any token, registered in the
\* room or not.
CallUnsubscribe(c, tok) ==
    /\ subscribers' = BrokerUnsubscribe(subscribers, c, tok)
    /\ qinfo' = [q \in DOMAIN qinfo |->
                   IF qinfo[q].room = c /\ qinfo[q].token = tok
                      /\ ~PopRaises(subscribers, c, tok)
                   THEN [qinfo[q] EXCEPT !.unsubAt = Len(pubLog)]
                   ELSE qinfo[q]]
    /\ call' = [op |-> "unsubscribe", chat_id |-> c, token |-> tok,
                raised |-> PopRaises(subscribers, c, tok),
                before |-> subscribers, qbefore |-> queues]
    /\ UNCHANGED <<members, messages, queues, tasks, ready, running, ntodo,
                   enqLog, pubLog>>

\* await broker.publish(chat_id, message) of a newly stored message, with
\* nothing else in the loop: the puts run in gather order and the call
\* returns.
CallPublish(c) ==
    /\ Len(queues) + Len(messages) < MaxTasks
    /\ LET m == Len(messages) + 1
           snap == Range(Snapshot(subscribers, c))
       IN /\ messages' = Append(messages, [chat_id |-> c, user_id |-> 1])
          /\ subscribers' = Touch(subscribers, c)
          /\ pubLog' = Append(pubLog, m)
          /\ queues' = [q \in DOMAIN queues |->
                          IF q \in snap THEN Append(queues[q], m)
                                        ELSE queues[q]]
          /\ enqLog' = [q \in DOMAIN enqLog |->
                          IF q \in snap THEN Append(enqLog[q], m)
                                        ELSE enqLog[q]]
          /\ call' = [op |-> "publish", chat_id |-> c, token |-> 0,
                      raised |-> FALSE, before |-> subscribers,
                      qbefore |-> queues]
    /\ UNCHANGED <<members, tasks, ready, running, ntodo, qinfo>>

BrokerNext ==
    \/ \E c \in Chats : CallSubscribe(c)
    \/ \E c \in Chats : \E tok \in Tokens : CallUnsubscribe(c, tok)
    \/ \E c \in Chats : CallPublish(c)

BrokerSpec == Init /\ [][BrokerNext]_vars

\* The event loop runs every handle it has scheduled and a running
\* coroutine always takes its next step; clients, the transport and
\* cancellation are under no obligation.
FairSpec == Spec /\ WF_vars(Loop)

\* ================================================================ claims
QueueIds == 1..Len(queues)

\* Tokens registered under room c; a room without entry has none.
TokensOf(subs, c) == IF c \in DOMAIN subs THEN DOMAIN subs[c] ELSE {}

\* The token minted for queue q is registered in q's room.
Registered(q) == qinfo[q].token \in TokensOf(subscribers, qinfo[q].room)

\* Position of message m in the order of the publish calls.
PubIdx(m) == CHOOSE i \in 1..Len(pubLog) : pubLog[i] = m

\* Publish calls to q's room invoked after q's subscribe returned and
\* before its unsubscribe was called.
WhileRegistered(q) ==
    {i \in 1..Len(pubLog) :
        /\ messages[pubLog[i]].chat_id = qinfo[q].room
        /\ qinfo[q].subAt < i
        /\ (qinfo[q].unsubAt = -1 \/ i <= qinfo[q].unsubAt)}

Occurrences(seq, x) == Cardinality({i \in 1..Len(seq) : seq[i] = x})

\* Scheduled, not yet run put tasks of message m into queue q.
PendingPuts(q, m) ==
    Cardinality({i \in 1..Len(ready) :
        ready[i].type = "put" /\ ready[i].q = q /\ ready[i].msg = m})

\* Everything that was or is about to be put into queue q.
Destined(q) ==
    Range(enqLog[q]) \cup
    {ready[i].msg : i \in {j \in 1..Len(ready) :
                              ready[j].type = "put" /\ ready[j].q = q}}

\* C1: every message whose publish is invoked while a token is registered
\* is enqueued into the token's queue exactly once (enqueued or still
\* scheduled, never both, never twice), and the queue received its
\* messages in the order of the publish calls.
C1_ExactlyOnceInPublishOrder ==
    \A q \in QueueIds :
        /\ \A i \in WhileRegistered(q) :
              Occurrences(enqLog[q], pubLog[i]) + PendingPuts(q, pubLog[i]) = 1
        /\ \A a, b \in 1..Len(enqLog[q]) :
              a < b => PubIdx(enqLog[q][a]) < PubIdx(enqLog[q][b])

\* Two messages were published while one token was registered and both
\* have been enqueued.
C1_Witness ==
    \E q \in QueueIds :
        /\ Cardinality(WhileRegistered(q)) = 2
        /\ Len(enqLog[q]) = 2

\* C2: no message is ever enqueued into the queue of a token that is not
\* registered in the room at the moment of the enqueue.
C2_EnqueueOnlyWhileRegistered ==
    [][\A q \in 1..Len(enqLog) :
          enqLog'[q] # enqLog[q] => Registered(q)]_vars

\* C3: once unsubscribe has returned, no publish invoked afterwards adds a
\* message to the token's queue.
C3_NothingAfterUnsubscribe ==
    \A q \in QueueIds :
        qinfo[q].unsubAt # -1 =>
            \A m \in Destined(q) : PubIdx(m) <= qinfo[q].unsubAt

\* A publish to the room of an unsubscribed token was invoked after the
\* unsubscribe and its request has completed.
C3_Witness ==
    \E q \in QueueIds : \E t \in Posts :
        /\ qinfo[q].unsubAt # -1
        /\ tasks[t].pc = "closed"
        /\ tasks[t].status = "200"
        /\ tasks[t].chat_id = qinfo[q].room
        /\ PubIdx(tasks[t].msg) > qinfo[q].unsubAt

\* C4: a listen session that subscribed calls unsubscribe for its token
\* exactly once on every exit path; after it terminated its token is in
\* no room's subscriber mapping.
C4_UnsubscribedExactlyOnce ==
    \A t \in Listens :
        /\ tasks[t].unsubs <= 1
        /\ (tasks[t].pc = "closed" /\ tasks[t].token # 0) =>
              /\ tasks[t].unsubs = 1
              /\ \A c \in Chats : tasks[t].token \notin TokensOf(subscribers, c)

\* A session that transmitted a message has terminated.
C4_Witness ==
    \E t \in Listens :
        tasks[t].pc = "closed" /\ tasks[t].sent # <<>> /\ tasks[t].unsubs = 1

\* C5: when the peer disconnects while the session waits on its empty
\* queue, the session eventually unsubscribes, even if nothing is published.
C5_DisconnectLeadsToUnsubscribe ==
    \A t \in 1..MaxTasks :
        (t \in Listens /\ tasks[t].pc = "waiting" /\ ~tasks[t].peer)
            ~> (t \in Listens /\ tasks[t].unsubs = 1)

\* C6: a message published to one room never reaches the queue of a token
\* subscribed to another room.
C6_RoomIsolation ==
    \A q \in QueueIds : \A m \in Destined(q) :
        messages[m].chat_id = qinfo[q].room

\* A message was published to, and delivered in, one room while a token
\* was registered in the other room.
C6_Witness ==
    \E q1, q2 \in QueueIds :
        /\ qinfo[q1].room # qinfo[q2].room
        /\ enqLog[q1] # <<>>
        /\ qinfo[q2].subAt < PubIdx(enqLog[q1][1])
        /\ Registered(q2)

\* C7: a subscriber whose subscribe runs after a publish took its snapshot
\* does not receive that publish's message.
C7_NoDeliveryToLateSubscriber ==
    \A q \in QueueIds : \A m \in Destined(q) : PubIdx(m) > qinfo[q].subAt

\* A token is registered in a room while the fan-out of an earlier publish
\* to that room is still scheduled.
C7_Witness ==
    \E q \in QueueIds : \E i \in 1..Len(ready) :
        /\ ready[i].type = "put"
        /\ messages[ready[i].msg].chat_id = qinfo[q].room
        /\ PubIdx(ready[i].msg) <= qinfo[q].subAt
        /\ Registered(q)

\* A post task is about to call broker.publish for a room without
\* subscribers.
PublishingToEmpty(t) ==
    /\ t \in Posts
    /\ running = t
    /\ tasks[t].pc = "publish"
    /\ TokensOf(subscribers, tasks[t].chat_id) = {}

\* C8 as stated: publishing to a room with zero subscribers leaves the
\* broker's registry and every queue unchanged and does not block.
C8_PublishToEmptyChangesNothing ==
    [][\A t \in -MaxTasks..-1 : PublishingToEmpty(t) =>
          /\ subscribers' = subscribers
          /\ queues' = queues
          /\ running' = t]_vars

\* C8 amended: publishing to a room with zero subscribers leaves every
\* room's set of registered tokens and every queue unchanged, schedules
\* nothing and does not block; no registry entry is removed (a room the
\* broker had not seen gains an empty entry).
C8_PublishToEmptyKeepsTokens ==
    [][\A t \in -MaxTasks..-1 : PublishingToEmpty(t) =>
          /\ \A c \in Chats :
                TokensOf(subscribers', c) = TokensOf(subscribers, c)
          /\ DOMAIN subscribers \subseteq DOMAIN subscribers'
          /\ queues' = queues
          /\ ready' = ready
          /\ running' = t]_vars

\* A publish to a room the broker had never seen has returned.
C8_Witness ==
    \E t \in Posts :
        /\ tasks[t].pc = "return"
        /\ tasks[t].nsubs = 0
        /\ subscribers[tasks[t].chat_id] = EmptyMap
        /\ \A q \in QueueIds : qinfo[q].room # tasks[t].chat_id

\* C9: no token is ever registered in a room's subscriber mapping on
\* behalf of a caller who is not a member of that room.
C9_OnlyMembersRegistered ==
    \A q \in QueueIds :
        Registered(q) => tasks[qinfo[q].owner].user \in members[qinfo[q].room]

\* C10: a post by an authenticated non-member is rejected before any
\* effect: no row is stored for it and nothing is published or scheduled.
C10_NonMemberPostHasNoEffect ==
    /\ \A i \in 1..Len(messages) :
          messages[i].user_id \in members[messages[i].chat_id]
    /\ \A t \in Posts :
          tasks[t].user \notin members[tasks[t].chat_id] =>
              /\ tasks[t].pc \in {"filter", "closed"}
              /\ tasks[t].msg = 0
              /\ tasks[t].pending = 0
              /\ \A i \in 1..Len(ready) :
                    ready[i].type = "put" => ready[i].id # t
              /\ tasks[t].pc = "closed" => tasks[t].status = "403"

\* A non-member's post was rejected while a token was registered in the
\* room it addressed.
C10_Witness ==
    \E t \in Posts :
        /\ tasks[t].status = "403"
        /\ \E q \in QueueIds :
              /\ qinfo[q].room = tasks[t].chat_id
              /\ Registered(q)
              /\ enqLog[q] = <<>>

\* The row of message m is in the messages table.
Persisted(m) == m \in 1..Len(messages)

\* C11: the row is committed before publish is invoked: every message in
\* a subscriber's queue, scheduled for one, held by a session or already
\* transmitted is a row of the messages table, and so is the message of
\* every post request that has reached its publish call.
C11_PersistedBeforePublished ==
    /\ \A i \in 1..Len(pubLog) : Persisted(pubLog[i])
    /\ \A q \in QueueIds :
          \A m \in Destined(q) \cup Range(queues[q]) : Persisted(m)
    /\ \A t \in Listens :
          /\ \A m \in Range(tasks[t].sent) : Persisted(m)
          /\ tasks[t].cur # 0 => Persisted(tasks[t].cur)
    /\ \A t \in Posts :
          tasks[t].pc \in {"publish", "gather", "return"} =>
              /\ Persisted(tasks[t].msg)
              /\ messages[tasks[t].msg].chat_id = tasks[t].chat_id
              /\ messages[tasks[t].msg].user_id = tasks[t].user

\* A stored message has been transmitted to a session.
C11_Witness ==
    \E t \in Listens : \E m \in Range(tasks[t].sent) :
        Persisted(m) /\ messages[m].chat_id = tasks[t].chat_id

\* C12: unsubscribe with a token that is not registered in the room is a
\* no-op or a reported error, and either way removes no other token: every
\* room has the same registered tokens, mapped to the same queues, and
\* every queue the same content as before the call.
C12_UnknownTokenRemovesNothing ==
    (call.op = "unsubscribe"
        /\ call.token \notin TokensOf(call.before, call.chat_id)) =>
        /\ call.raised \/ subscribers = call.before
        /\ \A c \in Chats :
              /\ TokensOf(subscribers, c) = TokensOf(call.before, c)
              /\ \A k \in TokensOf(subscribers, c) :
                    subscribers[c][k] = call.before[c][k]
        /\ queues = call.qbefore

\* unsubscribe was called with a token unknown to a room in which another
\* token is registered whose queue holds a message.
C12_Witness ==
    /\ call.op = "unsubscribe"
    /\ call.token \notin TokensOf(call.before, call.chat_id)
    /\ \E k \in TokensOf(subscribers, call.chat_id) :
          queues[subscribers[call.chat_id][k]] # <<>>

\* The queues that were registered in the room of message m when its
\* publish was invoked.
SnapshotOf(m) == {q \in QueueIds : PubIdx(m) \in WhileRegistered(q)}

\* Post request t has passed its `await broker.publish(...)` and every
\* queue of the snapshot has received the message.
PublishDone(t) ==
    /\ t \in Posts
    /\ tasks[t].pc \in {"return", "closed"}
    /\ tasks[t].msg \in Range(pubLog)
    /\ \A q \in SnapshotOf(tasks[t].msg) : tasks[t].msg \in Range(enqLog[q])

\* C13: every publish that is invoked eventually completes, whatever the
\* subscribers do (never drain, fail to transmit, unsubscribe during the
\* fan-out), and by then the message is enqueued for every subscriber of
\* the snapshot.
C13_PublishCompletes ==
    \A t \in -MaxTasks..-1 :
        (t \in Posts /\ tasks[t].pc = "publish") ~> PublishDone(t)

\* A publish has completed although a subscriber of its snapshot was
\* unsubscribed during the fan-out and never took the message from its
\* queue.
C13_Witness ==
    \E t \in Posts : \E q \in QueueIds :
        /\ tasks[t].pc = "return"
        /\ PublishDone(t)
        /\ q \in SnapshotOf(tasks[t].msg)
        /\ qinfo[q].unsubAt = PubIdx(tasks[t].msg)
        /\ tasks[t].msg \in Range(queues[q])

Registrations ==
    {p \in Chats \X QueueIds : p[2] \in TokensOf(subscribers, p[1])}

\* C15: a token is in the subscriber mapping of at most one room, and
\* every registered token maps to a queue of its own: no queue is shared
\* by two tokens or two rooms.
C15_OneRoomOneQueuePerToken ==
    /\ \A c \in DOMAIN subscribers : DOMAIN subscribers[c] \subseteq QueueIds
    /\ \A p1, p2 \in Registrations :
          p1 # p2 =>
              /\ p1[2] # p2[2]
              /\ subscribers[p1[1]][p1[2]] # subscribers[p2[1]][p2[2]]
    /\ \A p \in Registrations :
          /\ subscribers[p[1]][p[2]] \in QueueIds
          /\ qinfo[subscribers[p[1]][p[2]]].token = p[2]
          /\ qinfo[subscribers[p[1]][p[2]]].room = p[1]

\* Tokens are registered in both rooms at once, and two in one room.
C15_Witness ==
    /\ \A c \in Chats : TokensOf(subscribers, c) # {}
    /\ \E c \in Chats : Cardinality(TokensOf(subscribers, c)) = 2

\* No entry of the registry is deleted, and every room that was subscribed
\* to has an entry in the next state, with an empty mapping once all its
\* tokens are unsubscribed.
EntriesKept ==
    /\ DOMAIN subscribers \subseteq DOMAIN subscribers'
    /\ \A q \in 1..Len(qinfo') :
          /\ qinfo'[q].room \in DOMAIN subscribers'
          /\ (\A r \in 1..Len(qinfo') :
                 qinfo'[r].room = qinfo'[q].room => qinfo'[r].unsubAt # -1)
              => subscribers'[qinfo'[q].room] = EmptyMap

\* C16 as stated: a room's registry entry is created by the first
\* subscribe to the room (a new entry holds a token), is never deleted,
\* and remains, empty, after the last unsubscribe.
C16_EntryCreatedByFirstSubscribe ==
    [][/\ \A c \in DOMAIN subscribers' \ DOMAIN subscribers :
             TokensOf(subscribers', c) # {}
       /\ EntriesKept]_vars

\* C16 amended: a room's registry entry is created by the first broker
\* operation that names the room (subscribe, publish or unsubscribe of a
\* request for that room), is never deleted, and remains, empty, after the
\* last unsubscribe.
C16_EntryCreatedOnFirstUse ==
    [][/\ \A c \in DOMAIN subscribers' \ DOMAIN subscribers :
             /\ running \in TaskIds
             /\ tasks[running].chat_id = c
             /\ tasks[running].pc \in {"stream", "publish", "cleanup"}
       /\ EntriesKept]_vars

\* The only token of a room has been unsubscribed: the room's entry is
\* there, empty, while the other room has no entry yet.
C16_Witness ==
    \E q \in QueueIds :
        /\ qinfo[q].unsubAt # -1
        /\ \A r \in QueueIds : qinfo[r].room = qinfo[q].room
        /\ subscribers[qinfo[q].room] = EmptyMap
        /\ DOMAIN subscribers = {qinfo[q].room}

\* What session t has transmitted, holds and has still queued, in order.
Transcript(t) ==
    tasks[t].sent
        \o (IF tasks[t].cur # 0 THEN <<tasks[t].cur>> ELSE <<>>)
        \o queues[tasks[t].stream]

Min(a, b) == IF a < b THEN a ELSE b

\* C17: a session is subscribed before its connection is accepted, so a
\* message published between the subscribe and the return of ws.accept is
\* kept in the session's queue, and once accepted the session, while it
\* is alive, transmits the buffered messages first, in the order they
\* were enqueued.
C17_BufferedBeforeAcceptSentFirst ==
    \A t \in Listens :
        tasks[t].stream # 0 =>
            LET q == tasks[t].stream
                k == tasks[t].buffered
            IN /\ tasks[t].pc \in {"filter", "accept", "accepting",
                                   "accepted"} =>
                     /\ Registered(q)
                     /\ k = -1
                     /\ tasks[t].sent = <<>>
                     /\ queues[q] = enqLog[q]
               /\ k >= 0 =>
                     /\ k <= Len(enqLog[q])
                     /\ \A i \in 1..Min(k, Len(tasks[t].sent)) :
                           tasks[t].sent[i] = enqLog[q][i]
                     /\ tasks[t].pc # "cleanup" =>
                           /\ k <= Len(Transcript(t))
                           /\ \A i \in 1..Min(k, Len(Transcript(t))) :
                                 Transcript(t)[i] = enqLog[q][i]

\* Two messages were published while a session was between its subscribe
\* and the return of ws.accept, and the session has transmitted both.
C17_Witness ==
    \E t \in Listens :
        /\ tasks[t].buffered = 2
        /\ tasks[t].sent = SubSeq(enqLog[tasks[t].stream], 1, 2)

\* Messages enqueued for session t that it has neither transmitted nor
\* holds nor has queued.
Dropped(t) == Len(enqLog[tasks[t].stream]) - Len(Transcript(t))

\* C18: what a session has transmitted is a prefix of what was enqueued
\* into its queue, without repetition; the queue is what remains of the
\* enqueued sequence, in order; the one message missing between the two
\* is the message of a failed transmit, which is dropped and ends the
\* session.
C18_SentIsPrefixOfEnqueued ==
    \A t \in Listens :
        tasks[t].stream # 0 =>
            LET q == tasks[t].stream
                n == Len(enqLog[q])
                s == tasks[t].sent
            IN /\ Len(s) <= n
               /\ \A i \in 1..Min(Len(s), n) : s[i] = enqLog[q][i]
               /\ \A i, j \in 1..Len(s) : i # j => s[i] # s[j]
               /\ tasks[t].cur # 0 =>
                     Len(s) < n /\ tasks[t].cur = enqLog[q][Len(s) + 1]
               /\ Len(queues[q]) <= n
               /\ \A i \in 1..Min(Len(queues[q]), n) :
                     queues[q][i] = enqLog[q][n - Len(queues[q]) + i]
               /\ Dropped(t) \in {0, 1}
               /\ Dropped(t) = 1 => tasks[t].pc \in {"cleanup", "closed"}
               /\ (tasks[t].pc = "cleanup"
                     /\ tasks[t].exc = "WebSocketDisconnect") => Dropped(t) = 1

\* A session transmitted a message, failed to transmit the next one and
\* ended.
C18_Witness ==
    \E t \in Listens :
        /\ tasks[t].pc = "closed"
        /\ Len(tasks[t].sent) = 1
        /\ Dropped(t) = 1

====
